---- MODULE Spec2Model ----
(***************************************************************************)
(* Model of the lesson planner script (src/main.py).                       *)
(*                                                                         *)
(* The script is executed top to bottom once per user interaction.  The    *)
(* only state that survives a run is st.session_state, which holds the     *)
(* lesson under "lesson_md" and the quiz under "quiz_md".                  *)
(*                                                                         *)
(* A text is a sequence of characters.  A character is a one-element       *)
(* string: " ", "\n" or a non-blank character.  The fixed wording of a     *)
(* prompt template is kept as one non-blank element per run of wording;    *)
(* textwrap.dedent only inspects the blanks that lead a line and the lines *)
(* made of blanks alone, so this keeps everything dedent computes.         *)
(*                                                                         *)
(* st.session_state belongs to one browser session, and a session runs the *)
(* script one run at a time; the model is that of one session.             *)
(***************************************************************************)
EXTENDS Integers, Sequences, FiniteSets, TLC

(***************************************************************************)
(* Bounds and program constants                                            *)
(***************************************************************************)
\* the longest text call_llm returns in the model
MaxLen == 1

MinQuestions == 3

DefaultQuestions == 7

MaxQuestions == 15

TemplateIndent == 4

Alphabet == {" ", "\n", "a"}

RECURSIVE TextsOfLen(_)
TextsOfLen(n) ==
    IF n = 0 THEN {<< >>}
    ELSE {Append(t, c) : t \in TextsOfLen(n - 1), c \in Alphabet}

\* what chain.invoke may return: any text, the empty text included
Completions == UNION {TextsOfLen(n) : n \in 0..MaxLen}

\* what call_llm may raise
Causes == {"Missing GROQ API key. Set GROQ_API_KEY (or 'key') in your .env",
           "connection error"}

\* the sidebar as first shown, and its two extremes
SidebarInputs ==
    {[language |-> "English", difficulty |-> "Medium", num_questions |-> DefaultQuestions],
     [language |-> "Urdu", difficulty |-> "Easy", num_questions |-> MinQuestions],
     [language |-> "Spanish", difficulty |-> "Hard", num_questions |-> MaxQuestions]}

(***************************************************************************)
(* Text helpers                                                            *)
(***************************************************************************)
IsBlank(c) == c \in {" ", "\t"}

AllBlank(line) == \A i \in 1..Len(line) : IsBlank(line[i])

\* str.split("\n") : the lines the regular expressions of dedent see
RECURSIVE SplitLines(_)
SplitLines(t) ==
    IF \A i \in 1..Len(t) : t[i] # "\n" THEN << t >>
    ELSE LET i == CHOOSE k \in 1..Len(t) :
                      t[k] = "\n" /\ \A m \in 1..(k - 1) : t[m] # "\n"
         IN << SubSeq(t, 1, i - 1) >> \o SplitLines(SubSeq(t, i + 1, Len(t)))

RECURSIVE JoinLines(_)
JoinLines(ls) ==
    IF Len(ls) = 0 THEN << >>
    ELSE IF Len(ls) = 1 THEN ls[1]
    ELSE ls[1] \o << "\n" >> \o JoinLines(Tail(ls))

\* the blanks that lead a line
LeadingBlanks(line) ==
    LET n == CHOOSE k \in 0..Len(line) :
                 /\ \A i \in 1..k : IsBlank(line[i])
                 /\ (k < Len(line) => ~IsBlank(line[k + 1]))
    IN SubSeq(line, 1, n)

StartsWith(s, p) == Len(p) =< Len(s) /\ SubSeq(s, 1, Len(p)) = p

CommonPrefix(x, y) ==
    LET m == IF Len(x) < Len(y) THEN Len(x) ELSE Len(y)
        n == CHOOSE k \in 0..m :
                 /\ \A i \in 1..k : x[i] = y[i]
                 /\ (k < m => x[k + 1] # y[k + 1])
    IN SubSeq(x, 1, n)

\* the loop of dedent over the indents of the non-blank lines
RECURSIVE FoldMargin(_, _)
FoldMargin(margin, indents) ==
    IF Len(indents) = 0 THEN margin
    ELSE LET indent == Head(indents)
             next == IF StartsWith(indent, margin) THEN margin
                     ELSE IF StartsWith(margin, indent) THEN indent
                     ELSE CommonPrefix(margin, indent)
         IN FoldMargin(next, Tail(indents))

\* textwrap.dedent
dedent(text) ==
    LET raw == SplitLines(text)
        \* _whitespace_only_re.sub('', text)
        norm == [i \in 1..Len(raw) |-> IF AllBlank(raw[i]) THEN << >> ELSE raw[i]]
        \* _leading_whitespace_re.findall(text)
        inked == SelectSeq(norm, LAMBDA l : Len(l) > 0)
        indents == [i \in 1..Len(inked) |-> LeadingBlanks(inked[i])]
        margin == IF Len(indents) = 0 THEN << >>
                  ELSE FoldMargin(Head(indents), Tail(indents))
        \* re.sub(r'(?m)^' + margin, '', text)
        cut == [i \in 1..Len(norm) |->
                   IF Len(margin) > 0 /\ StartsWith(norm[i], margin)
                   THEN SubSeq(norm[i], Len(margin) + 1, Len(norm[i]))
                   ELSE norm[i]]
    IN JoinLines(cut)

Digit(d) == << "0", "1", "2", "3", "4", "5", "6", "7", "8", "9" >>[d + 1]

\* str(n) as the f-string formats an int
RECURSIVE Str(_)
Str(n) == IF n < 10 THEN << Digit(n) >> ELSE Str(n \div 10) \o << Digit(n % 10) >>

Indent == [i \in 1..TemplateIndent |-> " "]

TemplateLine(body) == Indent \o body \o << "\n" >>

build_quiz_prompt(lesson_plan_md, grade, language, difficulty, num_questions) ==
    LET prompt ==
            << "\n" >>
            \o TemplateLine(<< "You are an assessment designer. Based ONLY on the lesson plan content below, create a quiz." >>)
            \o << "\n" >>
            \o TemplateLine(<< "- Number of questions: " >> \o Str(num_questions))
            \o TemplateLine(<< "- Difficulty: ", difficulty >>)
            \o TemplateLine(<< "- Grade/Level: " >> \o grade)
            \o TemplateLine(<< "- Language: ", language >>)
            \o TemplateLine(<< "- Mix question types: multiple choice, short answer, and 1 challenge question." >>)
            \o TemplateLine(<< "- For multiple choice, include 4 options labeled A-D." >>)
            \o TemplateLine(<< "- Provide an **Answer Key** at the end under a collapsible details block." >>)
            \o TemplateLine(<< "- Return the quiz as clean Markdown (no code fences)." >>)
            \o << "\n" >>
            \o TemplateLine(<< "LESSON PLAN START" >>)
            \o TemplateLine(<< "---" >>)
            \o TemplateLine(lesson_plan_md)
            \o TemplateLine(<< "---" >>)
            \o TemplateLine(<< "LESSON PLAN END" >>)
            \o Indent
    IN dedent(prompt)

\* str.encode("utf-8"), one character at a time
Utf8Char(c) ==
    CASE c = " " -> << 32 >>
      [] c = "\n" -> << 10 >>
      [] c = "\t" -> << 9 >>
      [] c = "a" -> << 97 >>

RECURSIVE encode(_)
encode(t) == IF Len(t) = 0 THEN << >> ELSE Utf8Char(Head(t)) \o encode(Tail(t))

\* str.replace(old, new) for a one- or two-character old, left to right
RECURSIVE replace(_, _, _)
replace(t, old, new) ==
    IF Len(t) < Len(old) THEN t
    ELSE IF SubSeq(t, 1, Len(old)) = old
         THEN new \o replace(SubSeq(t, Len(old) + 1, Len(t)), old, new)
         ELSE << Head(t) >> \o replace(Tail(t), old, new)

\* the Paragraph text of the PDF story
ParagraphText(lesson_md) ==
    replace(replace(lesson_md, << "\n", "\n" >>, << "<br/><br/>" >>),
            << "\n" >>, << "<br/>" >>)

(***************************************************************************)
(* The inputs of one run of the script                                     *)
(***************************************************************************)
RequiredFields == {"subject", "topic", "grade", "duration", "learning_objectives"}

FieldNames == RequiredFields \cup {"customization"}

BlankForm == [n \in FieldNames |-> << >>]

FullForm == [n \in FieldNames |-> << "x" >>]

\* the default form, the filled form, and the filled form with one field emptied
FormInputs ==
    {BlankForm, FullForm}
    \cup {[FullForm EXCEPT ![n] = << >>] : n \in FieldNames}

Buttons == {"generate", "quiz", "reset"}

RequiredFilledButObjectives(f) ==
    /\ Len(f["subject"]) > 0
    /\ Len(f["topic"]) > 0
    /\ Len(f["grade"]) > 0
    /\ Len(f["duration"]) > 0

\* all([subject, topic, grade, duration, learning_objectives])
RequiredFilled(f) ==
    /\ Len(f["subject"]) > 0
    /\ Len(f["topic"]) > 0
    /\ Len(f["grade"]) > 0
    /\ Len(f["duration"]) > 0
    /\ Len(f["learning_objectives"]) > 0

Warning ==
    [kind |-> "warning",
     text |-> << "Please fill out Subject, Topic, Grade, Duration, and Learning Objectives." >>]

LLMError(e) == [kind |-> "error", text |-> << "LLM error: ", e >>]

PdfInfo ==
    [kind |-> "info",
     text |-> << "PDF export encountered an issue. You can still download Markdown/TXT." >>]

PdfCaption(e) == [kind |-> "caption", text |-> << "Details: ", e >>]

PdfCauses == {"paragraph markup error"}

(***************************************************************************)
(* State                                                                   *)
(***************************************************************************)
VARIABLES
    session_state,        \* st.session_state: key -> text
    REPORTLAB_AVAILABLE,  \* whether the reportlab import succeeded
    pc,                   \* where the running script is; "idle" between runs
    form,                 \* the text widgets, while the run has yet to use them
    clicks,               \* the buttons pressed, while the run has yet to read them
    in_flight,            \* calls to call_llm that have not returned
    reply,                \* what the last call_llm of this run returned or raised
    quiz_args,            \* the arguments of the build_quiz_prompt call in flight
    quiz_src,             \* the lesson text the held quiz was generated from
    msgs,                 \* warnings, errors and notices on the page
    exports,              \* download buttons on the page: file name -> payload
    done                  \* what the last run of the script did

vars == << session_state, REPORTLAB_AVAILABLE, pc, form, clicks, in_flight, reply,
           quiz_args, quiz_src, msgs, exports, done >>

NoEntries == [k \in {} |-> << >>]

Has(key) == key \in DOMAIN session_state

\* session_state[key] = value
Store(ss, key, value) ==
    [k \in DOMAIN ss \cup {key} |-> IF k = key THEN value ELSE ss[k]]

\* session_state.pop(key, None)
Pop(ss, key) == [k \in DOMAIN ss \ {key} |-> ss[k]]

\* lines 205-207: the prompt of the quiz call in flight
quiz_prompt(a) ==
    build_quiz_prompt(a.lesson_plan_md, a.grade, a.language, a.difficulty,
                      a.num_questions)

Returned(text) == [ok |-> TRUE, val |-> text]

Raised(e) == [ok |-> FALSE, val |-> << e >>]

Init ==
    /\ session_state = NoEntries
    /\ REPORTLAB_AVAILABLE \in BOOLEAN
    /\ pc = "idle"
    /\ form = BlankForm
    /\ clicks = {}
    /\ in_flight = {}
    /\ reply = {}
    /\ quiz_args = {}
    /\ quiz_src = {}
    /\ msgs = {}
    /\ exports = NoEntries
    /\ done = {}

(***************************************************************************)
(* One run of the script, from the top                                     *)
(***************************************************************************)
\* the widgets are read; nothing of the previous run stays on the page
Rerun(f, c) ==
    /\ pc = "idle"
    /\ form' = f
    /\ clicks' = c
    /\ reply' = {}
    /\ exports' = NoEntries
    /\ UNCHANGED << session_state, REPORTLAB_AVAILABLE, quiz_args, quiz_src >>

\* the script ends: its locals are dropped and the buttons read False again
EndRun ==
    /\ pc' = "idle"
    /\ form' = BlankForm
    /\ clicks' = {}
    /\ reply' = {}

\* lines 173-177: Generate pressed with a required field empty
GenerateWarn(f, c) ==
    /\ Rerun(f, c)
    /\ "generate" \in c
    /\ ~RequiredFilled(f)
    /\ msgs' = {Warning}
    /\ done' = {"warning"}
    /\ pc' = "display"
    /\ UNCHANGED in_flight

\* lines 173-184: Generate pressed with the required fields filled; the
\* script blocks in call_llm.  What the remote model answers does not depend
\* on the model's view of the lesson prompt, which is not kept.
GenerateCallAsync(f, c) ==
    /\ Rerun(f, c)
    /\ "generate" \in c
    /\ RequiredFilled(f)
    /\ msgs' = {}
    /\ done' = {"lesson_call"}
    /\ in_flight' = in_flight \cup {"lesson"}
    /\ pc' = "display"

GenerateCall(f, c) ==
    /\ Rerun(f, c)
    /\ "generate" \in c
    /\ RequiredFilled(f)
    /\ msgs' = {}
    /\ done' = {"lesson_call"}
    /\ in_flight' = in_flight \cup {"lesson"}
    /\ pc' = "lessonCall"

\* line 175: Generate not pressed
NoGenerate(f, c) ==
    /\ Rerun(f, c)
    /\ "generate" \notin c
    /\ msgs' = {}
    /\ done' = {}
    /\ pc' = "display"
    /\ UNCHANGED in_flight

LessonSuccessKeepsQuiz(text) ==
    /\ pc = "lessonCall"
    /\ session_state' = Store(session_state, "lesson_md", text)
    /\ in_flight' = in_flight \ {"lesson"}
    /\ reply' = {Returned(text)}
    /\ done' = done \cup {"lesson_ok"}
    /\ pc' = "display"
    /\ UNCHANGED << REPORTLAB_AVAILABLE, form, clicks, quiz_args,
                    quiz_src, msgs, exports >>

LessonSuccessKeepsOldLesson(text) ==
    /\ pc = "lessonCall"
    /\ session_state' = IF Has("lesson_md") THEN Pop(session_state, "quiz_md")
                         ELSE Store(session_state, "lesson_md", text)
    /\ quiz_src' = {}
    /\ in_flight' = in_flight \ {"lesson"}
    /\ reply' = {Returned(text)}
    /\ done' = done \cup {"lesson_ok"}
    /\ pc' = "display"
    /\ UNCHANGED << REPORTLAB_AVAILABLE, form, clicks, quiz_args, msgs, exports >>

\* lines 184-186: call_llm returns
LessonSuccess(text) ==
    /\ pc = "lessonCall"
    /\ session_state' = Pop(Store(session_state, "lesson_md", text), "quiz_md")
    /\ quiz_src' = {}
    /\ in_flight' = in_flight \ {"lesson"}
    /\ reply' = {Returned(text)}
    /\ done' = done \cup {"lesson_ok"}
    /\ pc' = "display"
    /\ UNCHANGED << REPORTLAB_AVAILABLE, form, clicks, quiz_args,
                    msgs, exports >>

LessonFailDropsLesson(e) ==
    /\ pc = "lessonCall"
    /\ session_state' = NoEntries
    /\ quiz_src' = {}
    /\ in_flight' = in_flight \ {"lesson"}
    /\ reply' = {Raised(e)}
    /\ msgs' = msgs \cup {LLMError(e)}
    /\ done' = done \cup {"lesson_err"}
    /\ pc' = "display"
    /\ UNCHANGED << REPORTLAB_AVAILABLE, form, clicks, quiz_args, exports >>

\* lines 187-188: call_llm raises
LessonFail(e) ==
    /\ pc = "lessonCall"
    /\ in_flight' = in_flight \ {"lesson"}
    /\ reply' = {Raised(e)}
    /\ msgs' = msgs \cup {LLMError(e)}
    /\ done' = done \cup {"lesson_err"}
    /\ pc' = "display"
    /\ UNCHANGED << session_state, REPORTLAB_AVAILABLE, form, clicks, quiz_args, quiz_src, exports >>

\* below line 206 the script reads no text widget, and below line 202 no
\* button but Reset
PastQuizButton ==
    /\ form' = BlankForm
    /\ clicks' = clicks \cap {"reset"}

NoLessonQuizAnyway ==
    /\ pc = "display"
    /\ ~Has("lesson_md")
    /\ EndRun
    /\ IF "quiz" \in clicks
       THEN /\ session_state' = Store(session_state, "quiz_md", << >>)
            /\ done' = done \cup {"quiz_call", "quiz_ok"}
       ELSE UNCHANGED << session_state, done >>
    /\ UNCHANGED << REPORTLAB_AVAILABLE, in_flight, quiz_args, quiz_src,
                    msgs, exports >>

\* line 194, no lesson held: nothing below is run, whatever was pressed
NoLesson ==
    /\ pc = "display"
    /\ ~Has("lesson_md")
    /\ EndRun
    /\ UNCHANGED << session_state, REPORTLAB_AVAILABLE, in_flight, quiz_args, quiz_src, msgs, exports, done >>

\* lines 194-208: lesson held and Create Quiz pressed; the script blocks in
\* call_llm on the prompt build_quiz_prompt makes of quiz_args.
QuizCall(sidebar) ==
    /\ pc = "display"
    /\ Has("lesson_md")
    /\ "quiz" \in clicks
    /\ quiz_args' = {[lesson_plan_md |-> session_state["lesson_md"],
                      grade |-> form["grade"],
                      language |-> sidebar.language,
                      difficulty |-> sidebar.difficulty,
                      num_questions |-> sidebar.num_questions]}
    /\ in_flight' = in_flight \cup {"quiz"}
    /\ done' = done \cup {"quiz_call"}
    /\ pc' = "quizCall"
    /\ PastQuizButton
    /\ UNCHANGED << session_state, REPORTLAB_AVAILABLE, reply, quiz_src, msgs, exports >>

\* line 202: lesson held and Create Quiz not pressed
NoQuiz ==
    /\ pc = "display"
    /\ Has("lesson_md")
    /\ "quiz" \notin clicks
    /\ pc' = "export"
    /\ PastQuizButton
    /\ UNCHANGED << session_state, REPORTLAB_AVAILABLE, in_flight, reply,
                    quiz_args, quiz_src, msgs, exports, done >>

\* lines 208-209: call_llm returns
QuizSuccess(text) ==
    /\ pc = "quizCall"
    /\ session_state' = Store(session_state, "quiz_md", text)
    /\ quiz_src' = {a.lesson_plan_md : a \in quiz_args}
    /\ in_flight' = in_flight \ {"quiz"}
    /\ reply' = {Returned(text)}
    /\ quiz_args' = {}
    /\ done' = done \cup {"quiz_ok"}
    /\ pc' = "export"
    /\ UNCHANGED << REPORTLAB_AVAILABLE, form, clicks, msgs, exports >>

\* lines 210-211: call_llm raises
QuizFail(e) ==
    /\ pc = "quizCall"
    /\ in_flight' = in_flight \ {"quiz"}
    /\ reply' = {Raised(e)}
    /\ msgs' = msgs \cup {LLMError(e)}
    /\ quiz_args' = {}
    /\ done' = done \cup {"quiz_err"}
    /\ pc' = "export"
    /\ UNCHANGED << session_state, REPORTLAB_AVAILABLE, form, clicks, quiz_src, exports >>

(***************************************************************************)
(* Export and reset, reached only with a lesson held                       *)
(***************************************************************************)
TextDownloadsFlattened(lesson_md) ==
    [name \in {"lesson_plan.md", "lesson_plan.txt"} |->
        IF name = "lesson_plan.md" THEN encode(lesson_md)
        ELSE encode(replace(lesson_md, << "\n" >>, << " " >>))]

\* lines 222-229: the Markdown and the plain-text download buttons
TextDownloads(lesson_md) ==
    [name \in {"lesson_plan.md", "lesson_plan.txt"} |-> encode(lesson_md)]

ExportFrame ==
    /\ pc = "export"
    /\ pc' = "reset_button"
    /\ UNCHANGED << session_state, REPORTLAB_AVAILABLE, form, clicks, in_flight, reply,
                    quiz_args, quiz_src >>

\* lines 222-232 with reportlab missing: no PDF button, no notice
ExportWithoutPdf ==
    /\ ExportFrame
    /\ ~REPORTLAB_AVAILABLE
    /\ exports' = TextDownloads(session_state["lesson_md"])
    /\ done' = done \cup {"export", "pdf_absent"}
    /\ UNCHANGED msgs

\* lines 222-248: the PDF is built and offered
ExportWithPdf ==
    /\ ExportFrame
    /\ REPORTLAB_AVAILABLE
    /\ exports' = Store(TextDownloads(session_state["lesson_md"]), "lesson_plan.pdf",
                        ParagraphText(session_state["lesson_md"]))
    /\ done' = done \cup {"export", "pdf_ok"}
    /\ UNCHANGED msgs

\* lines 222-251: building the PDF raises
ExportPdfFails(e) ==
    /\ ExportFrame
    /\ REPORTLAB_AVAILABLE
    /\ exports' = TextDownloads(session_state["lesson_md"])
    /\ msgs' = msgs \cup {PdfInfo, PdfCaption(e)}
    /\ done' = done \cup {"export", "pdf_err"}

ResetKeepsLesson ==
    /\ pc = "reset_button"
    /\ "reset" \in clicks
    /\ session_state' = Pop(session_state, "quiz_md")
    /\ quiz_src' = {}
    /\ msgs' = {}
    /\ exports' = NoEntries
    /\ done' = done \cup {"reset"}
    /\ EndRun
    /\ UNCHANGED << REPORTLAB_AVAILABLE, in_flight, quiz_args >>

\* lines 255-257: Reset pressed; session_state is cleared and st.rerun() runs
\* the script again with nothing pressed and nothing held, which shows nothing
Reset ==
    /\ pc = "reset_button"
    /\ "reset" \in clicks
    /\ session_state' = NoEntries
    /\ quiz_src' = {}
    /\ msgs' = {}
    /\ exports' = NoEntries
    /\ done' = done \cup {"reset"}
    /\ EndRun
    /\ UNCHANGED << REPORTLAB_AVAILABLE, in_flight, quiz_args >>

\* line 255: Reset not pressed; the script ends
NoReset ==
    /\ pc = "reset_button"
    /\ "reset" \notin clicks
    /\ EndRun
    /\ UNCHANGED << session_state, REPORTLAB_AVAILABLE, in_flight, quiz_args, quiz_src, msgs, exports, done >>

Next ==
    \/ \E f \in FormInputs, c \in SUBSET Buttons : GenerateWarn(f, c)
    \/ \E f \in FormInputs, c \in SUBSET Buttons : GenerateCall(f, c)
    \/ \E f \in FormInputs, c \in SUBSET Buttons : NoGenerate(f, c)
    \/ \E text \in Completions : LessonSuccess(text)
    \/ \E e \in Causes : LessonFail(e)
    \/ NoLesson
    \/ \E sidebar \in SidebarInputs : QuizCall(sidebar)
    \/ NoQuiz
    \/ \E text \in Completions : QuizSuccess(text)
    \/ \E e \in Causes : QuizFail(e)
    \/ ExportWithoutPdf
    \/ ExportWithPdf
    \/ \E e \in PdfCauses : ExportPdfFails(e)
    \/ Reset
    \/ NoReset

Spec == Init /\ [][Next]_vars

(***************************************************************************)
(* Properties                                                              *)
(***************************************************************************)
CallPcs == {"lessonCall", "quizCall"}

Failed(r) == ~r.ok

\* C1: a quiz is held only while a lesson is held, and the held quiz was
\* generated from exactly the lesson text that is held now.
C1_QuizOfHeldLesson ==
    Has("quiz_md") =>
        /\ Has("lesson_md")
        /\ quiz_src = {session_state["lesson_md"]}

C1_Witness ==
    /\ pc = "idle"
    /\ Has("quiz_md")
    /\ {"lesson_ok", "quiz_ok"} \subseteq done

\* C2: Generate with a required field empty warns, calls nothing and leaves
\* the lesson and the quiz as they were; with the required fields filled and
\* only the customization empty there is no warning.
C2_EmptyRequiredFieldRejected ==
    [][(pc = "idle" /\ "generate" \in clicks')
         => /\ (\E n \in RequiredFields : form'[n] = << >>)
                 => /\ Warning \in msgs'
                    /\ session_state' = session_state
                    /\ quiz_src' = quiz_src
                    /\ in_flight' = {}
                    /\ "lesson_call" \notin done'
                    /\ pc' = "display"
            /\ (\A n \in RequiredFields : form'[n] # << >>)
                 => /\ Warning \notin msgs'
                    /\ in_flight' = {"lesson"}]_vars

C2_Witness ==
    /\ pc = "display"
    /\ Warning \in msgs
    /\ form["learning_objectives"] = << >>
    /\ Has("lesson_md")
    /\ Has("quiz_md")

\* C3: when call_llm raises in the lesson or in the quiz handler, the lesson
\* and the quiz held before are still held with their old text, nothing new
\* is stored, and an error carrying the cause is shown.
C3_FailureKeepsArtifacts ==
    [][(pc \in CallPcs /\ \E r \in reply' : Failed(r))
         => /\ session_state' = session_state
            /\ quiz_src' = quiz_src
            /\ \A r \in reply' : LLMError(r.val[1]) \in msgs']_vars

C3_Witness ==
    /\ "quiz_err" \in done
    /\ \E r \in reply : Failed(r) /\ LLMError(r.val[1]) \in msgs
    /\ Has("lesson_md")
    /\ Has("quiz_md")

\* C4: when call_llm returns in the lesson handler, the returned text is the
\* lesson held and no quiz is held, whatever was held before.
C4_NewLessonDiscardsQuiz ==
    [][(pc = "lessonCall" /\ \E r \in reply' : r.ok)
         => /\ \A r \in reply' : session_state' = [k \in {"lesson_md"} |-> r.val]
            /\ quiz_src' = {}]_vars

C4_Witness ==
    /\ pc = "display"
    /\ "lesson_ok" \in done
    /\ DOMAIN session_state = {"lesson_md"}
    /\ \E r \in reply : r.ok /\ session_state["lesson_md"] = r.val /\ Len(r.val) > 0

\* C5 as stated: Create Quiz pressed with no lesson held is answered by an
\* error on the page, with no call made and nothing stored.
C5_QuizWithoutLessonReportsError ==
    [][(pc = "display" /\ "quiz" \in clicks /\ ~Has("lesson_md"))
         => /\ session_state' = session_state
            /\ in_flight' = {}
            /\ "quiz_call" \notin done'
            /\ msgs' # msgs]_vars

\* C5 as amended: Create Quiz pressed with no lesson held is ignored: no call
\* is made, no quiz is stored, nothing stays held, and no error is reported.
C5_QuizWithoutLessonIgnored ==
    [][(pc = "display" /\ "quiz" \in clicks /\ ~Has("lesson_md"))
         => /\ session_state' = session_state
            /\ session_state' = NoEntries
            /\ in_flight' = {}
            /\ "quiz_call" \notin done'
            /\ msgs' = msgs
            /\ pc' = "idle"]_vars

C5_Witness ==
    /\ pc = "display"
    /\ "quiz" \in clicks
    /\ ~Has("lesson_md")
    /\ session_state = NoEntries

C8_EmptyCompletionIsFailure ==
    [][(pc \in CallPcs /\ reply' = {Returned(<< >>)})
         => /\ session_state' = session_state
            /\ \A k \in DOMAIN session_state' : session_state'[k] # << >>]_vars

ExportsOfLesson(ex, ss) ==
    /\ {"lesson_plan.md", "lesson_plan.txt"} \subseteq DOMAIN ex
    /\ ex["lesson_plan.md"] = encode(ss["lesson_md"])
    /\ ex["lesson_plan.txt"] = ex["lesson_plan.md"]

\* C9 as stated: with a lesson held, the Markdown and the plain-text download
\* carry the same bytes, the UTF-8 bytes of the lesson; and whenever no PDF
\* is offered, because reportlab is missing or raised, a notice is shown;
\* exporting changes neither the lesson nor the quiz.
C9_NoPdfAlwaysReported ==
    [][/\ (pc' = "idle" /\ "lesson_md" \in DOMAIN session_state')
            => ExportsOfLesson(exports', session_state')
       /\ pc = "export"
            => /\ ExportsOfLesson(exports', session_state)
               /\ session_state' = session_state
               /\ "lesson_plan.pdf" \notin DOMAIN exports' => PdfInfo \in msgs']_vars

\* C9 as amended: the same, but the notice is shown only when building the
\* PDF raised; with reportlab missing no PDF is offered and nothing is shown.
C9_PdfFailureReported ==
    [][/\ (pc' = "idle" /\ "lesson_md" \in DOMAIN session_state')
            => ExportsOfLesson(exports', session_state')
       /\ pc = "export"
            => /\ ExportsOfLesson(exports', session_state)
               /\ session_state' = session_state
               /\ ("lesson_plan.pdf" \notin DOMAIN exports' /\ REPORTLAB_AVAILABLE)
                     => PdfInfo \in msgs'
               /\ ~REPORTLAB_AVAILABLE
                     => "lesson_plan.pdf" \notin DOMAIN exports' /\ msgs' = msgs]_vars

C9_Witness ==
    /\ pc = "idle"
    /\ ~REPORTLAB_AVAILABLE
    /\ Has("lesson_md")
    /\ Has("quiz_md")
    /\ "pdf_absent" \in done
    /\ PdfInfo \notin msgs
    /\ Len(exports["lesson_plan.txt"]) = MaxLen

Blanks(n) == [i \in 1..n |-> " "]

IndexOf(p, word) == CHOOSE i \in 1..Len(p) : p[i] = word

\* the prompt holds the lesson, unmodified, between the two delimiters: apart
\* from the "---" rules and the blanks the template puts before each line,
\* what stands between START and END is the lesson
EmbedsVerbatim(p, lesson) ==
    LET between == SubSeq(p, IndexOf(p, "LESSON PLAN START") + 1,
                          IndexOf(p, "LESSON PLAN END") - 1)
    IN \E k1, k2, k3, k4 \in 0..TemplateIndent :
          between = << "\n" >> \o Blanks(k1) \o << "---", "\n" >> \o Blanks(k2)
                    \o lesson
                    \o << "\n" >> \o Blanks(k3) \o << "---", "\n" >> \o Blanks(k4)

StatesCount(p, n) ==
    LET i == IndexOf(p, "- Number of questions: ")
    IN SubSeq(p, i + 1, i + Len(Str(n)) + 1) = Str(n) \o << "\n" >>

\* C10: the quiz prompt holds the whole lesson text, unmodified, between
\* LESSON PLAN START and LESSON PLAN END, and states the requested count.
C10_PromptEmbedsLesson ==
    \A a \in quiz_args :
        /\ EmbedsVerbatim(quiz_prompt(a), a.lesson_plan_md)
        /\ StatesCount(quiz_prompt(a), a.num_questions)

====
